---- MODULE Spec2Model ----
(***************************************************************************)
(* Random-search family of optimisers (RandomSearch, RandomHillClimbing,   *)
(* AdaptiveRandomSearch, IteratedLocalSearch).                             *)
(*                                                                         *)
(* Numbers are fixed-point: the integer v stands for the real v / Scale.   *)
(* Scores are integers in units of 1 / Scale^2.  A step scale is the       *)
(* rational <<num, den>>.  A behaviour is a sequence of calls made one     *)
(* after the other (the strategies are synchronous): call number inv is    *)
(* made with configuration cfgs[inv] and leaves its outcome in results.    *)
(***************************************************************************)
EXTENDS Integers, Sequences, FiniteSets

\* ---------------------------------------------------------------- bounds
MaxIter == 2

\* ------------------------------------------------------ number model
Scale == 2
RawMax == 2
LcgM == 9
LcgA == 7
LcgC == 5
NoSeed == 0 - 1

Min(a, b) == IF b < a THEN b ELSE a
Max(a, b) == IF b > a THEN b ELSE a

RECURSIVE Pow(_, _)
Pow(b, n) == IF n = 0 THEN 1 ELSE b * Pow(b, n - 1)

\* math.ceil / math.floor of the real lo / Scale, as a fixed-point number
Ceil(lo) == Scale * (0 - ((0 - lo) \div Scale))
Floor(hi) == Scale * (hi \div Scale)

\* ------------------------------------------------------ the generator
\* a generator that ignores the seed it is given
NewRandomUnseeded(seed) == NoSeed

\* random.Random(seed): a given seed fixes the generator's state, an omitted
\* one takes it from the system's entropy (every draw is then unconstrained)
NewRandom(seed) == seed

LcgNext(s) == (LcgA * s + LcgC) % LcgM
LcgOut(s) == (s * (RawMax + 1)) \div LcgM

RECURSIVE LcgDraws(_, _)
LcgDraws(s, n) ==
    IF n = 0 THEN <<<<>>, s>>
    ELSE LET t == LcgNext(s)
             rest == LcgDraws(t, n - 1)
         IN <<<<LcgOut(t)>> \o rest[1], rest[2]>>

\* the n next raw draws of generator state g, each in 0..RawMax, paired with
\* the state they leave the generator in
RawDraws(g, n) ==
    IF g = NoSeed
    THEN {<<us, NoSeed>> : us \in [1..n -> 0..RawMax]}
    ELSE {LcgDraws(g, n)}

\* rng.uniform(lo, hi) = lo + (hi - lo) * random()
Uniform(lo, hi, u) == lo + ((hi - lo) * u) \div RawMax

\* rng.randint(a, b) for integers a <= b (fixed-point multiples of Scale)
RandInt(a, b, u) == a + Scale * (u % (((b - a) \div Scale) + 1))

\* rng.gauss(0, sigma) = z * sigma for a standard normal draw z
Gauss(step, span, u) == ((u - (RawMax \div 2)) * step[1] * span) \div step[2]

\* ------------------------------------------------------ the objective
Sum(x) == LET RECURSIVE S(_)
              S(i) == IF i = 0 THEN 0 ELSE x[i] + S(i - 1)
          IN S(Len(x))

sphere(v) == LET RECURSIVE S(_)
                 S(i) == IF i = 0 THEN 0 ELSE v[i] * v[i] + S(i - 1)
             IN S(Len(v))

ObjNames == {"sphere", "sum", "flat"}

\* objective(x): obj.neg marks the objective -f of the named f
Objective(obj, x) ==
    LET raw == CASE obj.name = "sphere" -> sphere(x)
                 [] obj.name = "sum" -> Scale * Sum(x)
                 [] OTHER -> 0
    IN IF obj.neg THEN 0 - raw ELSE raw

\* ------------------------------------------------------ sampling
\* the first dimension on which _sample_from_bounds raises (randint over an
\* empty range), 0 if none
SampleFails(bounds, integer) ==
    LET bad == {i \in 1..Min(Len(bounds), Len(integer)) :
                  integer[i] /\ Ceil(bounds[i][1]) > Floor(bounds[i][2])}
    IN IF bad = {} THEN 0 ELSE CHOOSE i \in bad : \A j \in bad : i <= j

\* one coordinate per pair of zip(bounds, integer)
_sample_from_bounds(bounds, integer, us) ==
    [i \in 1..Min(Len(bounds), Len(integer)) |->
        IF integer[i]
        THEN RandInt(Ceil(bounds[i][1]), Floor(bounds[i][2]), us[i])
        ELSE Uniform(bounds[i][1], bounds[i][2], us[i])]

_random_vector(bounds, us) ==
    [i \in 1..Len(bounds) |-> Uniform(bounds[i][1], bounds[i][2], us[i])]

\* a clip that forgets the upper bound
ClipLowOnly(lo, hi, p) == Max(lo, p)

\* max(lo, min(hi, perturbed))
Clip(lo, hi, p) == Max(lo, Min(hi, p))

\* _perturb / _neighbor: Gaussian noise scaled by step * span, then clipped
_perturb(bounds, vector, step, us) ==
    [i \in 1..Len(bounds) |->
        Clip(bounds[i][1], bounds[i][2],
             vector[i] + Gauss(step, bounds[i][2] - bounds[i][1], us[i]))]

\* a comparison that ignores `maximize`
ImprovedMinimizing(maximize, candidate_score, current_score) ==
    candidate_score < current_score

\* a comparison that takes a tie for an improvement
ImprovedOrTie(maximize, candidate_score, current_score) ==
    IF maximize THEN candidate_score >= current_score
    ELSE candidate_score <= current_score

\* candidate_score > current_score if maximize else candidate_score < current_score
Improved(maximize, candidate_score, current_score) ==
    IF maximize THEN candidate_score > current_score
    ELSE candidate_score < current_score

\* a unified score that is never negated
UnifiedRaw(maximize, raw) == raw

\* score = raw if maximize else -raw
Unified(maximize, raw) == IF maximize THEN raw ELSE 0 - raw

\* a replacement rule that lets a tie replace the best
ReplacesOrTie(score, best) == score >= best

\* random_search: if score > best_score
Replaces(score, best) == score > best

\* a length check that lets a too short `integer` through
LengthMismatchLonger(integer, n) == Len(integer) > n

\* random_search: elif len(integer) != dim
LengthMismatch(integer, n) == Len(integer) # n

\* a report that counts the initial draw
ReportedCountPlusOne(iterations) == iterations + 1

\* the count a call reports: "evaluations": iterations / "iterations": self.iterations
ReportedCount(iterations) == iterations

\* an escape jump made from the last local optimum, accepted or not
PerturbFromCandidate(bestVector, lastCandidate) == lastCandidate

\* IteratedLocalSearch.run: the vector the escape jump is made from
PerturbSource(bestVector, lastCandidate) == bestVector

\* ------------------------------------------------------ configurations
HillClimbIters == 100

Half == <<1, 2>>
StepSizes == {Half, <<2, 1>>}

\* bounds lists with low <= high throughout, with an integer range that is
\* empty (0.5..0.5), and with low > high
BoundsLists ==
    { << <<0 - 1, 1>> >>,
      << <<0 - 1, 1>>, <<0, 1>> >>,
      << <<1, 1>> >>,
      << <<1, 0 - 1>> >>,
      << <<0 - 1, 1>>, <<1, 1>> >>,
      << <<1, 1>>, <<0 - 1, 1>> >> }

\* those of them IteratedLocalSearch is run on
ClimbBoundsLists ==
    { << <<0 - 1, 1>> >>,
      << <<1, 0 - 1>> >>,
      << <<0 - 1, 1>>, <<1, 1>> >> }

\* the `integer` argument: omitted, one flag per bound, or of another length
IntegerArgs(dim) ==
    {[given |-> FALSE, flags |-> <<>>]}
    \cup {[given |-> TRUE, flags |-> f] : f \in [1..dim -> BOOLEAN]}
    \cup {[given |-> TRUE, flags |-> [i \in 1..(dim - 1) |-> TRUE]]}

NoInteger == [given |-> FALSE, flags |-> <<>>]

Objectives == {[name |-> n, neg |-> FALSE] : n \in ObjNames}

RSConfigs(seeds) ==
    UNION {
      {[strategy |-> "RS", objective |-> o, bounds |-> b, iterations |-> n,
        integer |-> g, maximize |-> m, seed |-> sd, return_history |-> h,
        step_size |-> Half, perturb_strength |-> Half] :
          o \in Objectives, n \in 0..MaxIter, g \in IntegerArgs(Len(b)),
          m \in BOOLEAN, sd \in seeds, h \in BOOLEAN}
      : b \in BoundsLists }

ClassConfigs(strategy, seeds, boundsLists) ==
    {[strategy |-> strategy, objective |-> o, bounds |-> b, iterations |-> n,
      integer |-> NoInteger, maximize |-> m, seed |-> sd, return_history |-> TRUE,
      step_size |-> st, perturb_strength |-> Half] :
        o \in Objectives, b \in boundsLists, n \in 0..MaxIter,
        m \in BOOLEAN, sd \in seeds, st \in StepSizes}

Configs(seeds) ==
    RSConfigs(seeds) \cup ClassConfigs("RHC", seeds, BoundsLists)
    \cup ClassConfigs("ARS", seeds, BoundsLists)
    \cup ClassConfigs("ILS", seeds, ClimbBoundsLists)

\* ------------------------------------------------------ state
VARIABLES
    cfgs,            \* the calls to make, in order: one configuration each
    inv,             \* number of the call in progress (or next to be made)
    pc,              \* "idle", "loop" (main loop) or "climb" (in _hill_climb)
    rng,             \* state of the call's generator
    it,              \* loop variable of the main loop
    current,         \* current vector (of run, or of _hill_climb)
    current_score,
    best,            \* best_x / best
    best_score,      \* RandomSearch: unified score; the classes: raw score
    best_score_raw,  \* RandomSearch only
    step,            \* AdaptiveRandomSearch: the adapted step scale
    hc_k,            \* IteratedLocalSearch: neighbour steps done in the climb
    history,
    evals,           \* objective calls made by the call in progress
    lastEval,        \* the vector last passed to the objective
    decisions,       \* accept (TRUE) / reject (FALSE) of each main-loop iteration
    results,         \* outcome of each finished call
    observed         \* per finished call: objective calls made, decisions taken

vars == <<cfgs, inv, pc, rng, it, current, current_score, best, best_score,
          best_score_raw, step, hc_k, history, evals, lastEval,
          decisions, results, observed>>

cfg == cfgs[inv]
dim == Len(cfg.bounds)
Calling(strategy) == inv <= Len(cfgs) /\ cfg.strategy = strategy

Blank ==
    /\ rng = NoSeed /\ it = 0 /\ current = <<>> /\ current_score = 0
    /\ best = <<>> /\ best_score = 0 /\ best_score_raw = 0 /\ step = Half
    /\ hc_k = 0 /\ history = <<>> /\ evals = 0
    /\ lastEval = <<>> /\ decisions = <<>>

InitWith(calls) ==
    /\ cfgs \in calls
    /\ inv = 1 /\ pc = "idle" /\ results = <<>> /\ observed = <<>>
    /\ Blank

Init == InitWith({<<c>> : c \in Configs({NoSeed})})

\* the call ends: its locals go out of scope
Finish(outcome) ==
    /\ results' = Append(results, outcome)
    /\ observed' = Append(observed, [evals |-> evals, decisions |-> decisions])
    /\ inv' = inv + 1 /\ pc' = "idle"
    /\ rng' = NoSeed /\ it' = 0 /\ current' = <<>> /\ current_score' = 0
    /\ best' = <<>> /\ best_score' = 0 /\ best_score_raw' = 0 /\ step' = Half
    /\ hc_k' = 0 /\ history' = <<>> /\ evals' = 0
    /\ lastEval' = <<>> /\ decisions' = <<>>
    /\ UNCHANGED cfgs

Result(key, count, with_history) ==
    [kind |-> "result", best_x |-> best,
     best_score |-> IF key = "evaluations" THEN best_score_raw ELSE best_score,
     key |-> key, count |-> count,
     has_history |-> with_history,
     history |-> IF with_history THEN history ELSE <<>>]

Raised(error) ==
    [kind |-> error, best_x |-> <<>>, best_score |-> 0, key |-> "", count |-> 0,
     has_history |-> FALSE, history |-> <<>>]

\* ------------------------------------------------------ RandomSearch
\* integer = [False] * dim when omitted
IntegerFlags ==
    IF cfg.integer.given THEN cfg.integer.flags ELSE [i \in 1..dim |-> FALSE]

\* random_search raises before its first objective call: `integer` of the
\* wrong length, or randint over an empty range in the initial sample
RS_Raise ==
    /\ pc = "idle" /\ Calling("RS")
    /\ \/ cfg.integer.given /\ LengthMismatch(cfg.integer.flags, dim)
       \/ /\ ~(cfg.integer.given /\ LengthMismatch(cfg.integer.flags, dim))
          /\ SampleFails(cfg.bounds, IntegerFlags) # 0
    /\ Finish(Raised("ValueError"))

RS_Start ==
    /\ pc = "idle" /\ Calling("RS")
    /\ ~(cfg.integer.given /\ LengthMismatch(cfg.integer.flags, dim))
    /\ SampleFails(cfg.bounds, IntegerFlags) = 0
    /\ \E d \in RawDraws(NewRandom(cfg.seed), Min(dim, Len(IntegerFlags))) :
         LET x == _sample_from_bounds(cfg.bounds, IntegerFlags, d[1])
             raw == Objective(cfg.objective, x)
         IN /\ rng' = d[2]
            /\ best' = x
            /\ best_score_raw' = raw
            /\ best_score' = Unified(cfg.maximize, raw)
            /\ history' = IF cfg.return_history THEN <<<<0, raw>>>> ELSE <<>>
            /\ evals' = evals + 1
            /\ lastEval' = x
    /\ it' = 0 /\ pc' = "loop"
    /\ UNCHANGED <<cfgs, inv, current, current_score, step, hc_k,
                   decisions, results, observed>>

RS_Iter ==
    /\ pc = "loop" /\ Calling("RS") /\ it < cfg.iterations
    /\ \E d \in RawDraws(rng, Min(dim, Len(IntegerFlags))) :
         LET x == _sample_from_bounds(cfg.bounds, IntegerFlags, d[1])
             raw == Objective(cfg.objective, x)
             score == Unified(cfg.maximize, raw)
             better == Replaces(score, best_score)
         IN /\ rng' = d[2]
            /\ best_score' = IF better THEN score ELSE best_score
            /\ best_score_raw' = IF better THEN raw ELSE best_score_raw
            /\ best' = IF better THEN x ELSE best
            /\ history' = IF better /\ cfg.return_history
                          THEN Append(history, <<it + 1, raw>>) ELSE history
            /\ decisions' = Append(decisions, better)
            /\ evals' = evals + 1
            /\ lastEval' = x
    /\ it' = it + 1
    /\ UNCHANGED <<cfgs, inv, pc, current, current_score, step, hc_k,
                   results, observed>>

\* "evaluations": iterations
RS_Return ==
    /\ pc = "loop" /\ Calling("RS") /\ it = cfg.iterations
    /\ Finish(Result("evaluations", ReportedCount(cfg.iterations), cfg.return_history))

\* ------------------------------------------------------ RandomHillClimbing
\* run, up to the loop: one random vector, evaluated, is current and best
RHC_Start ==
    /\ pc = "idle" /\ Calling("RHC")
    /\ \E d \in RawDraws(NewRandom(cfg.seed), dim) :
         LET x == _random_vector(cfg.bounds, d[1])
             score == Objective(cfg.objective, x)
         IN /\ rng' = d[2]
            /\ current' = x /\ current_score' = score
            /\ best' = x /\ best_score' = score
            /\ history' = <<<<0, score>>>>
            /\ evals' = evals + 1
            /\ lastEval' = x
    /\ it' = 0 /\ pc' = "loop"
    /\ UNCHANGED <<cfgs, inv, best_score_raw, step, hc_k, decisions,
                   results, observed>>

\* one iteration of the loop of RandomHillClimbing.run (step = step_size) and
\* of AdaptiveRandomSearch.run (step adapted by up / down)
ClimbIter(stepNow, adapt) ==
    \E d \in RawDraws(rng, dim) :
       LET candidate == _perturb(cfg.bounds, current, stepNow, d[1])
           candidate_score == Objective(cfg.objective, candidate)
           improved == Improved(cfg.maximize, candidate_score, current_score)
           better == improved /\ Improved(cfg.maximize, candidate_score, best_score)
       IN /\ rng' = d[2]
          /\ current' = IF improved THEN candidate ELSE current
          /\ current_score' = IF improved THEN candidate_score ELSE current_score
          /\ best' = IF better THEN candidate ELSE best
          /\ best_score' = IF better THEN candidate_score ELSE best_score
          /\ step' = IF adapt THEN (IF improved THEN <<step[1] * 6, step[2] * 5>>
                                    ELSE <<step[1] * 9, step[2] * 10>>)
                     ELSE step
          /\ history' = Append(history, <<it + 1, best_score'>>)
          /\ decisions' = Append(decisions, improved)
          /\ evals' = evals + 1
          /\ lastEval' = candidate
          /\ it' = it + 1

RHC_Iter ==
    /\ pc = "loop" /\ Calling("RHC") /\ it < cfg.iterations
    /\ ClimbIter(cfg.step_size, FALSE)
    /\ UNCHANGED <<cfgs, inv, pc, best_score_raw, hc_k, results,
                   observed>>

\* "iterations": self.iterations
RHC_Return ==
    /\ pc = "loop" /\ Calling("RHC") /\ it = cfg.iterations
    /\ Finish(Result("iterations", ReportedCount(cfg.iterations), TRUE))

\* ------------------------------------------------------ AdaptiveRandomSearch
ARS_Start ==
    /\ pc = "idle" /\ Calling("ARS")
    /\ \E d \in RawDraws(NewRandom(cfg.seed), dim) :
         LET x == _random_vector(cfg.bounds, d[1])
             score == Objective(cfg.objective, x)
         IN /\ rng' = d[2]
            /\ current' = x /\ current_score' = score
            /\ best' = x /\ best_score' = score
            /\ history' = <<<<0, score>>>>
            /\ evals' = evals + 1
            /\ lastEval' = x
    /\ step' = cfg.step_size
    /\ it' = 0 /\ pc' = "loop"
    /\ UNCHANGED <<cfgs, inv, best_score_raw, hc_k, decisions,
                   results, observed>>

ARS_Iter ==
    /\ pc = "loop" /\ Calling("ARS") /\ it < cfg.iterations
    /\ ClimbIter(step, TRUE)
    /\ UNCHANGED <<cfgs, inv, pc, best_score_raw, hc_k, results,
                   observed>>

ARS_Return ==
    /\ pc = "loop" /\ Calling("ARS") /\ it = cfg.iterations
    /\ Finish(Result("iterations", ReportedCount(cfg.iterations), TRUE))

\* ------------------------------------------------------ IteratedLocalSearch
\* entry of _hill_climb(start): current = start[:], evaluated
EnterClimb(start) ==
    /\ current' = start
    /\ current_score' = Objective(cfg.objective, start)
    /\ evals' = evals + 1
    /\ lastEval' = start
    /\ hc_k' = 0
    /\ pc' = "climb"

\* run, up to its first _hill_climb
ILS_Start ==
    /\ pc = "idle" /\ Calling("ILS")
    /\ \E d \in RawDraws(NewRandom(cfg.seed), dim) :
         /\ rng' = d[2]
         /\ EnterClimb(_random_vector(cfg.bounds, d[1]))
    /\ it' = 0
    /\ UNCHANGED <<cfgs, inv, best, best_score, best_score_raw, step, history,
                   decisions, results, observed>>

\* one iteration of the loop of _hill_climb
ILS_HillStep ==
    /\ pc = "climb" /\ Calling("ILS") /\ hc_k < HillClimbIters
    /\ \E d \in RawDraws(rng, dim) :
         LET candidate == _perturb(cfg.bounds, current, cfg.step_size, d[1])
             candidate_score == Objective(cfg.objective, candidate)
             improved == Improved(cfg.maximize, candidate_score, current_score)
         IN /\ rng' = d[2]
            /\ current' = IF improved THEN candidate ELSE current
            /\ current_score' = IF improved THEN candidate_score ELSE current_score
            /\ evals' = evals + 1
            /\ lastEval' = candidate
    /\ hc_k' = hc_k + 1
    /\ UNCHANGED <<cfgs, inv, pc, it, best, best_score, best_score_raw, step,
                   history, decisions, results, observed>>

\* the first _hill_climb returns: its result is the first best
ILS_InitBest ==
    /\ pc = "climb" /\ Calling("ILS") /\ hc_k = HillClimbIters /\ it = 0
    /\ best' = current /\ best_score' = current_score
    /\ history' = <<<<0, current_score>>>>
    /\ pc' = "loop"
    /\ UNCHANGED <<cfgs, inv, rng, it, current, current_score, best_score_raw,
                   step, hc_k, evals, lastEval, decisions, results,
                   observed>>

\* the head of an iteration of run's loop: perturb best, enter _hill_climb
ILS_Perturb ==
    /\ pc = "loop" /\ Calling("ILS") /\ it < cfg.iterations
    /\ \E d \in RawDraws(rng, dim) :
         /\ rng' = d[2]
         /\ EnterClimb(_perturb(cfg.bounds, PerturbSource(best, current),
                             cfg.perturb_strength, d[1]))
    /\ it' = it + 1
    /\ UNCHANGED <<cfgs, inv, best, best_score, best_score_raw, step, history,
                   decisions, results, observed>>

\* the rest of the iteration: _hill_climb returns, its result is compared to best
ILS_Accept ==
    /\ pc = "climb" /\ Calling("ILS") /\ hc_k = HillClimbIters /\ it > 0
    /\ LET improved == Improved(cfg.maximize, current_score, best_score)
       IN /\ best' = IF improved THEN current ELSE best
          /\ best_score' = IF improved THEN current_score ELSE best_score
          /\ history' = Append(history, <<it, best_score'>>)
          /\ decisions' = Append(decisions, improved)
    /\ pc' = "loop"
    /\ UNCHANGED <<cfgs, inv, rng, it, current, current_score, best_score_raw,
                   step, hc_k, evals, lastEval, results, observed>>

ILS_Return ==
    /\ pc = "loop" /\ Calling("ILS") /\ it = cfg.iterations
    /\ Finish(Result("iterations", ReportedCount(cfg.iterations), TRUE))

Next ==
    \/ RS_Raise \/ RS_Start \/ RS_Iter \/ RS_Return
    \/ RHC_Start \/ RHC_Iter \/ RHC_Return
    \/ ARS_Start \/ ARS_Iter \/ ARS_Return
    \/ ILS_Start \/ ILS_HillStep \/ ILS_InitBest \/ ILS_Perturb \/ ILS_Accept
    \/ ILS_Return

Spec == Init /\ [][Next]_vars

\* ------------------------------------------------------ two calls, one seed
Seeds == 0..(LcgM - 1)

\* the same call made twice, each time on a strategy built from the same
\* arguments (a class's generator is created by its constructor)
InitDet == InitWith({<<c, c>> : c \in Configs(Seeds)})

SpecDet == InitDet /\ [][Next]_vars

\* a call minimizing f, then the call maximizing -f with the same seed
Mirror(c) ==
    [c EXCEPT !.maximize = ~c.maximize, !.objective.neg = ~c.objective.neg]

InitSym == InitWith({<<c, Mirror(c)>> : c \in {x \in Configs(Seeds) : ~x.maximize}})

SpecSym == InitSym /\ [][Next]_vars

\* ------------------------------------------------------ properties
ValidBounds(bounds) == \A i \in 1..Len(bounds) : bounds[i][1] <= bounds[i][2]

InBounds(bounds, x) ==
    \A i \in 1..Len(x) : bounds[i][1] <= x[i] /\ x[i] <= bounds[i][2]

Finished(i) == i \in 1..Len(results)
Returned(i) == Finished(i) /\ results[i].kind = "result"

\* C1 -- bound containment: in a call of any strategy whose bounds all have
\* low <= high, every coordinate of every vector passed to the objective
\* (initial draw, neighbour, hill-climbing intermediate, escape jump) lies in
\* its [low, high], whatever the draws and the step scale.
C1_BoundContainment ==
    (inv <= Len(cfgs) /\ lastEval # <<>> /\ ValidBounds(cfg.bounds))
        => InBounds(cfg.bounds, lastEval)

\* C1 witness: a hill-climbing neighbour of an escape jump, made with the
\* large step scale, was evaluated on its upper bound
C1_Witness ==
    /\ Calling("ILS") /\ pc = "climb" /\ it >= 1 /\ hc_k >= 1
    /\ ValidBounds(cfg.bounds) /\ cfg.step_size = <<2, 1>>
    /\ lastEval[1] = cfg.bounds[1][2] /\ lastEval # current

C3_ReversedBoundsRejected ==
    /\ \A i \in 1..Len(results) :
          ~ValidBounds(cfgs[i].bounds) =>
              results[i].kind # "result" /\ observed[i].evals = 0
    /\ (inv <= Len(cfgs) /\ ~ValidBounds(cfg.bounds)) => evals = 0

\* a random_search call whose `integer` is of the wrong length or flags a
\* dimension whose integer range [ceil(low), floor(high)] is empty
FaultyInteger(c) ==
    /\ c.strategy = "RS" /\ c.integer.given
    /\ \/ Len(c.integer.flags) # Len(c.bounds)
       \/ \E i \in 1..Len(c.bounds) :
             c.integer.flags[i] /\ Ceil(c.bounds[i][1]) > Floor(c.bounds[i][2])

\* C4 -- random search fails fast: with an `integer` of the wrong length, or an
\* integer-flagged dimension of empty integer range (whichever the dimension),
\* the call raises with zero objective calls made and returns no Result.
C4_FailFast ==
    /\ \A i \in 1..Len(results) :
          FaultyInteger(cfgs[i]) =>
              results[i].kind = "ValueError" /\ observed[i].evals = 0
    /\ (inv <= Len(cfgs) /\ FaultyInteger(cfg)) => (pc = "idle" /\ evals = 0)

\* C4 witness: a call raised on its second dimension's empty integer range,
\* the first being continuous and `integer` of the right length
C4_Witness ==
    /\ Finished(1) /\ results[1].kind = "ValueError" /\ observed[1].evals = 0
    /\ cfgs[1].integer.flags = <<FALSE, TRUE>>
    /\ ValidBounds(cfgs[1].bounds)

\* C5 -- min/max symmetry (SpecSym: a call minimizing f, then one maximizing
\* -f, same seed and configuration): both calls end alike, take the same
\* accept/reject decision at every iteration, return the same best vector,
\* and report best scores that are negations of each other.
C5_MinMaxSymmetry ==
    Len(results) = 2 =>
        /\ results[1].kind = results[2].kind
        /\ observed[1].decisions = observed[2].decisions
        /\ results[1].best_x = results[2].best_x
        /\ results[1].best_score = 0 - results[2].best_score

Accepts(ds) == \E j \in 1..Len(ds) : ds[j]
Rejects(ds) == \E j \in 1..Len(ds) : ~ds[j]

\* C5 witness: both calls returned, after an accepted and a rejected
\* iteration, with a best score that is not zero
C5_Witness ==
    /\ Len(results) = 2 /\ Returned(1) /\ Returned(2)
    /\ ~cfgs[1].maximize /\ cfgs[2].maximize /\ cfgs[2].objective.neg
    /\ Accepts(observed[1].decisions) /\ Rejects(observed[1].decisions)
    /\ results[1].best_score # 0

NotWorse(maximize, later, earlier) ==
    IF maximize THEN later >= earlier ELSE later <= earlier

\* C6 -- monotonic best-score history: in a returned History the iteration
\* indices start at 0 and increase strictly, each entry's raw best score is
\* not worse than the one before it (<= minimizing, >= maximizing), and the
\* last entry's score is the returned best_score.
C6_MonotonicHistory ==
    \A i \in 1..Len(results) :
        (Returned(i) /\ results[i].has_history) =>
            LET h == results[i].history
            IN /\ Len(h) >= 1 /\ h[1][1] = 0
               /\ \A j \in 1..(Len(h) - 1) :
                     /\ h[j][1] < h[j + 1][1]
                     /\ NotWorse(cfgs[i].maximize, h[j + 1][2], h[j][2])
               /\ h[Len(h)][2] = results[i].best_score

\* C6 witness: a returned history of three entries, flat then improving
C6_Witness ==
    /\ Returned(1) /\ results[1].has_history
    /\ Len(results[1].history) = 3
    /\ results[1].history[2][2] = results[1].history[1][2]
    /\ results[1].history[3][2] # results[1].history[2][2]

CountOf(ds, b) == Cardinality({j \in 1..Len(ds) : ds[j] = b})

\* the rational t is the rational s times n / d
Scaled(t, s, n, d) == t[1] * s[2] * d = s[1] * n * t[2]

Strictly(maximize, score, than) ==
    IF maximize THEN score > than ELSE score < than

C8_Closed ==
    (Calling("ARS") /\ pc = "loop") =>
        LET k == CountOf(decisions, TRUE)
            m == CountOf(decisions, FALSE)
        IN /\ k + m = it
           /\ Scaled(step, cfg.step_size, Pow(6, k) * Pow(9, m),
                     Pow(5, k) * Pow(10, m))
           /\ step[1] > 0 /\ step[2] > 0

C8_Iteration ==
    (Calling("ARS") /\ pc = "loop" /\ it' = it + 1) =>
        LET candidate == lastEval'
            candidate_score == Objective(cfg.objective, candidate)
        IN /\ IF Strictly(cfg.maximize, candidate_score, current_score)
              THEN /\ current' = candidate
                   /\ current_score' = candidate_score
                   /\ Scaled(step', step, 6, 5)
              ELSE /\ current' = current
                   /\ current_score' = current_score
                   /\ Scaled(step', step, 9, 10)
           /\ cfgs' = cfgs

\* C8 -- AdaptiveRandomSearch step adaptation: every iteration either accepts
\* a candidate that strictly improves on current_score and multiplies step by
\* 1.2, or (ties included) leaves current and current_score alone and
\* multiplies step by 0.9; so after k accepted and m rejected iterations
\* step = step_size * 1.2^k * 0.9^m with k + m the iterations done, step stays
\* positive, and the configured step_size is not modified.
C8_StepAdaptation == [](C8_Closed) /\ [][C8_Iteration]_vars

\* C8 witness: an accepted iteration, then a candidate tying with current
\* rejected
C8_Witness ==
    /\ Calling("ARS") /\ pc = "loop" /\ decisions = <<TRUE, FALSE>>
    /\ lastEval # current
    /\ Objective(cfg.objective, lastEval) = current_score

C9_Closed ==
    /\ (Calling("ILS") /\ pc = "climb" /\ hc_k = 0 /\ it >= 1) =>
           \E us \in [1..dim -> 0..RawMax] :
               current = _perturb(cfg.bounds, best, cfg.perturb_strength, us)
    /\ (Calling("ILS") /\ pc = "loop") => evals = (it + 1) * (100 + 1)

C9_Step ==
    Calling("ILS") =>
        /\ (pc = "climb" /\ hc_k' = hc_k + 1) =>
              LET candidate == lastEval'
                  candidate_score == Objective(cfg.objective, candidate)
              IN /\ IF Strictly(cfg.maximize, candidate_score, current_score)
                    THEN current' = candidate /\ current_score' = candidate_score
                    ELSE current' = current /\ current_score' = current_score
                 /\ NotWorse(cfg.maximize, current_score', current_score)
        /\ (pc = "climb" /\ pc' = "loop") =>
              /\ hc_k = 100
              /\ current_score = Objective(cfg.objective, current)
              /\ it > 0 =>
                    IF Strictly(cfg.maximize, current_score, best_score)
                    THEN best' = current /\ best_score' = current_score
                    ELSE best' = best /\ best_score' = best_score
        /\ (~(pc = "climb" /\ pc' = "loop") /\ inv' = inv) =>
              (best' = best /\ best_score' = best_score)

\* C9 -- IteratedLocalSearch outer loop: each outer iteration starts its local
\* search from a perturbation (at perturb_strength) of the current best, never
\* of a rejected candidate; the local search always runs its 100 neighbour
\* steps, accepts greedily on strict improvement and so never ends worse than
\* it started; best and best_score are replaced only when the local search's
\* result strictly improves on best_score.
C9_OuterLoop == [](C9_Closed) /\ [][C9_Step]_vars

\* C9 witness: the second outer iteration starts its local search, the first
\* one's local optimum having been rejected and differing from best
C9_Witness ==
    /\ Calling("ILS") /\ pc = "climb" /\ hc_k = 0 /\ it = 2
    /\ decisions = <<FALSE>>
    /\ current # best

C10_Closed ==
    /\ (Calling("RS") /\ pc = "loop") =>
          /\ best_score_raw = Objective(cfg.objective, best)
          /\ best_score = (IF cfg.maximize THEN best_score_raw ELSE 0 - best_score_raw)
          /\ cfg.return_history =>
                /\ Len(history) = 1 + CountOf(decisions, TRUE)
                /\ history[1][1] = 0
                /\ it = 0 => history[1][2] = best_score_raw
                /\ \A j \in 2..Len(history) :
                      history[j][1] \in 1..it /\ decisions[history[j][1]]
    /\ \A i \in 1..Len(results) :
          (Returned(i) /\ cfgs[i].strategy = "RS") =>
              /\ results[i].best_score = Objective(cfgs[i].objective, results[i].best_x)
              /\ cfgs[i].return_history =>
                    Len(results[i].history) = 1 + CountOf(observed[i].decisions, TRUE)

C10_Iteration ==
    (Calling("RS") /\ pc = "loop" /\ it' = it + 1) =>
        LET x == lastEval'
            raw == Objective(cfg.objective, x)
            score == IF cfg.maximize THEN raw ELSE 0 - raw
        IN IF score > best_score
           THEN /\ best' = x /\ best_score' = score /\ best_score_raw' = raw
                /\ history' = IF cfg.return_history
                              THEN Append(history, <<it', raw>>) ELSE history
           ELSE /\ best' = best /\ best_score' = best_score
                /\ best_score_raw' = best_score_raw
                /\ history' = history

\* C10 -- RandomSearch replacement rule: at iteration it (1..N) best vector
\* and score are replaced by the fresh candidate iff its unified score
\* strictly exceeds the best's (a tie keeps the earlier best); a requested
\* history is the entry (0, initial raw score) followed by exactly one entry
\* (it, new raw best score) per replacing iteration; the returned best_score
\* is the raw objective value of the returned best_x.
C10_Replacement == [](C10_Closed) /\ [][C10_Iteration]_vars

\* C10 witness: with history requested, a replacement at iteration 1, then a
\* different candidate tying with the best kept out at iteration 2
C10_Witness ==
    /\ Calling("RS") /\ pc = "loop" /\ cfg.return_history
    /\ decisions = <<TRUE, FALSE>> /\ Len(history) = 2
    /\ lastEval # best
    /\ Objective(cfg.objective, lastEval) = best_score_raw

====
